---- MODULE Spec2Model ----
(***************************************************************************)
(* Model of gomail's send core (src/send.go): Send drives a batch of       *)
(* messages through a Sender; send extracts the envelope of one message    *)
(* (getFrom, getRecipients, addAddress, parseAddress) and dispatches to    *)
(* Sender.Send or Sender.SkippableSend according to Sender.SkipErrRcpt.    *)
(*                                                                         *)
(* Texts are sequences of tokens.  Every literal of a format string is cut *)
(* so that the library prefix "gomail: " is a token of its own; HasPrefix  *)
(* on tokens then decides as strings.HasPrefix does on the characters.     *)
(* An error is a record [isNil, text]; the nil error has isNil = TRUE.     *)
(***************************************************************************)
EXTENDS Naturals, Sequences, FiniteSets, TLC

VARIABLES s, msg, pc, i, rcptErrs, ret, calls, queries, skip, fcalls, direct

vars == <<s, msg, pc, i, rcptErrs, ret, calls, queries, skip, fcalls, direct>>

(***************************************************************************)
(* Bounds of the model.                                                    *)
(***************************************************************************)
MaxBatch == 2

MaxFromVals == 2

MaxRcptVals == 3

MaxRcptErrs == 2

(***************************************************************************)
(* Errors and texts.                                                       *)
(***************************************************************************)
NilErr == [isNil |-> TRUE, text |-> <<>>]

NewError(text) == [isNil |-> FALSE, text |-> text]

HasPrefix(str, prefix) ==
    /\ Len(str) >= Len(prefix)
    /\ SubSeq(str, 1, Len(prefix)) = prefix

skipRcptErr == <<"gomail: ", "email sent with skipped recipients">>

Contains(str, sub) ==
    \E k \in 0..Len(str) : HasPrefix(SubSeq(str, k + 1, Len(str)), sub)

IsSkipRcptErrContains(err) ==
    IF err.isNil THEN "panic"
    ELSE IF Contains(err.text, <<"email sent with skipped recipients">>) THEN "true" ELSE "false"

IsSkipRcptErr(err) ==
    IF err.isNil THEN "panic"
    ELSE IF HasPrefix(err.text, skipRcptErr) THEN "true" ELSE "false"

(***************************************************************************)
(* Header values and net/mail's ParseAddress on them.                      *)
(***************************************************************************)
RawValues == {"a@x.com", "Al <a@x.com>", "b@x.com", "Bad <>", "no-at-sign"}

MailParseAddress(field) ==
    CASE field = "a@x.com"      -> [addr |-> "a@x.com", err |-> NilErr]
      [] field = "Al <a@x.com>" -> [addr |-> "a@x.com", err |-> NilErr]
      [] field = "b@x.com"      -> [addr |-> "b@x.com", err |-> NilErr]
      [] field = "Bad <>"       -> [addr |-> "", err |-> NewError(<<"mail: invalid string">>)]
      [] OTHER                  -> [addr |-> "", err |-> NewError(<<"mail: missing '@' or angle-addr">>)]

Quote(str) == <<"\"", str, "\"">>

parseAddress(field) ==
    LET r == MailParseAddress(field)
    IN  IF ~r.err.isNil
        THEN [addr |-> "",
              err  |-> NewError(<<"gomail: ", "invalid address ">> \o Quote(field)
                                \o <<": ">> \o r.err.text)]
        ELSE [addr |-> r.addr, err |-> NilErr]

(***************************************************************************)
(* A message is its header: a function from some field names to sequences  *)
(* of raw values.  Indexing a Go map with an absent key yields a nil slice. *)
(***************************************************************************)
Lookup(m, field) == IF field \in DOMAIN m THEN m[field] ELSE <<>>

ErrMissingFrom == NewError(<<"gomail: ", "invalid message, \"From\" field is absent">>)

getFromPrefersFrom(m) ==
    LET first == Lookup(m, "From")
        from  == IF Len(first) = 0 THEN Lookup(m, "Sender") ELSE first
    IN  IF Len(from) = 0
        THEN [addr |-> "", err |-> ErrMissingFrom]
        ELSE parseAddress(from[1])

getFromUnchecked(m) ==
    LET sender == Lookup(m, "Sender")
        from   == IF Len(sender) = 0 THEN Lookup(m, "From") ELSE sender
    IN  parseAddress(IF Len(from) = 0 THEN "" ELSE from[1])

getFrom(m) ==
    LET sender == Lookup(m, "Sender")
        from   == IF Len(sender) = 0 THEN Lookup(m, "From") ELSE sender
    IN  IF Len(from) = 0
        THEN [addr |-> "", err |-> ErrMissingFrom]
        ELSE parseAddress(from[1])

addAddressAlways(list, addr) == Append(list, addr)

addAddress(list, addr) ==
    IF \E k \in 1..Len(list) : list[k] = addr THEN list ELSE Append(list, addr)

RcptFields == <<"To", "Cc", "Bcc">>

RECURSIVE rcptLoop(_, _, _, _)
rcptLoop(m, f, k, list) ==
    IF f > Len(RcptFields) THEN [list |-> list, err |-> NilErr]
    ELSE IF RcptFields[f] \notin DOMAIN m \/ k > Len(m[RcptFields[f]])
         THEN rcptLoop(m, f + 1, 1, list)
         ELSE LET r == parseAddress(m[RcptFields[f]][k])
              IN  IF ~r.err.isNil
                  THEN [list |-> <<>>, err |-> r.err]
                  ELSE rcptLoop(m, f, k + 1, addAddress(list, r.addr))

RECURSIVE rcptLoopSkipInvalid(_, _, _, _)
rcptLoopSkipInvalid(m, f, k, list) ==
    IF f > Len(RcptFields) THEN [list |-> list, err |-> NilErr]
    ELSE IF RcptFields[f] \notin DOMAIN m \/ k > Len(m[RcptFields[f]])
         THEN rcptLoopSkipInvalid(m, f + 1, 1, list)
         ELSE LET r == parseAddress(m[RcptFields[f]][k])
              IN  IF ~r.err.isNil
                  THEN rcptLoopSkipInvalid(m, f, k + 1, list)
                  ELSE rcptLoopSkipInvalid(m, f, k + 1, addAddress(list, r.addr))

getRecipientsSkipInvalid(m) == rcptLoopSkipInvalid(m, 1, 1, <<>>)

getRecipientsRejectEmpty(m) ==
    LET r == rcptLoop(m, 1, 1, <<>>)
    IN  IF r.err.isNil /\ Len(r.list) = 0
        THEN [list |-> <<>>, err |-> NewError(<<"gomail: ", "no recipients">>)]
        ELSE r

getRecipients(m) == rcptLoop(m, 1, 1, <<>>)

(***************************************************************************)
(* Per-recipient errors and the composite error's parts.                   *)
(***************************************************************************)
RcptError(rcpt) == [rcpt |-> rcpt, cause |-> "550 mailbox unavailable"]

Rcpts(errs) == [k \in 1..Len(errs) |-> errs[k].rcpt]

RECURSIVE RcptErrorsError(_)
RcptErrorsError(errs) ==
    IF Len(errs) = 0 THEN <<>>
    ELSE <<errs[1].rcpt, ": ", errs[1].cause, "; ">> \o RcptErrorsError(Tail(errs))

RECURSIVE JoinSpace(_)
JoinSpace(list) ==
    IF Len(list) = 0 THEN <<>>
    ELSE IF Len(list) = 1 THEN <<list[1]>>
    ELSE <<list[1], " ">> \o JoinSpace(Tail(list))

FmtStrings(list) == <<"[">> \o JoinSpace(list) \o <<"]">>

(***************************************************************************)
(* The Sender: either some implementation of the interface, whose answers  *)
(* and results the core does not constrain, or the SendFunc adapter.       *)
(***************************************************************************)
Senders == {"Sender", "SendFunc"}

TransportErrs ==
    { NewError(<<"dial tcp: connection refused">>),
      NewError(skipRcptErr \o <<": [] (from the transport)">>) }

SendErrs == {NilErr} \cup TransportErrs

SkipErrRcptAnswers(sender) == IF sender = "SendFunc" THEN {FALSE} ELSE BOOLEAN

SeqsUpTo(S, n) == UNION {[1..k -> S] : k \in 0..n}

Range(seq) == {seq[k] : k \in 1..Len(seq)}

RcptErrsFor(to) ==
    { [k \in 1..Len(rs) |-> RcptError(rs[k])] :
        rs \in { r \in SeqsUpTo(Range(to), MaxRcptErrs) :
                   \A a, b \in 1..Len(r) : a # b => r[a] # r[b] } }

(***************************************************************************)
(* SendFunc(f): what its methods return when f returns ferr, and the calls *)
(* of f that one method call makes.                                        *)
(***************************************************************************)
SendFuncSend(ferr) == ferr

SendFuncSkippableSendDropsErr(ferr) == [rcptErr |-> <<>>, err |-> NilErr]

SendFuncSkippableSend(ferr) == [rcptErr |-> <<>>, err |-> ferr]

SendFuncInvokes(from, to, m) == << [from |-> from, to |-> to, msg |-> m] >>

InvokesOf(sender, from, to, m) ==
    IF sender = "SendFunc" THEN SendFuncInvokes(from, to, m) ELSE <<>>

SkippableSendResults(sender, to) ==
    IF sender = "SendFunc"
    THEN { SendFuncSkippableSend(e) : e \in SendErrs }
    ELSE { [rcptErr |-> r, err |-> e] : r \in RcptErrsFor(to), e \in SendErrs }

(***************************************************************************)
(* Send and send.                                                          *)
(***************************************************************************)
sendMethodAlwaysSend(skipErrRcpt) == "Send"

sendMethodAlwaysSkippable(skipErrRcpt) == "SkippableSend"

sendMethodFlipped(skipErrRcpt) == IF skipErrRcpt THEN "Send" ELSE "SkippableSend"

sendMethod(skipErrRcpt) == IF skipErrRcpt THEN "SkippableSend" ELSE "Send"

SendAbortNever(rcptErr, err) == FALSE

SendAbortOnRcptErr(rcptErr, err) == ~err.isNil \/ Len(rcptErr) > 0

SendAbort(rcptErr, err) == ~err.isNil

SendWrapZeroBased(idx, err) ==
    NewError(<<"gomail: ", "could not send email ", ToString(idx), ": ">> \o err.text)

SendWrapKeepsSkipped(idx, err) ==
    IF Len(rcptErrs) > 0
    THEN NewError(skipRcptErr \o <<": ">> \o FmtStrings(Rcpts(rcptErrs)) \o <<", error: ">>
                  \o RcptErrorsError(rcptErrs) \o err.text)
    ELSE NewError(<<"gomail: ", "could not send email ", ToString(idx + 1), ": ">> \o err.text)

SendWrap(idx, err) ==
    NewError(<<"gomail: ", "could not send email ", ToString(idx + 1), ": ">> \o err.text)

SendCollectPrepend(all, rcptErr) == IF Len(rcptErr) > 0 THEN rcptErr \o all ELSE all

SendCollect(all, rcptErr) == IF Len(rcptErr) > 0 THEN all \o rcptErr ELSE all

SendResultNil(all) == NilErr

SendResult(all) ==
    IF Len(all) > 0
    THEN NewError(skipRcptErr \o <<": ">> \o FmtStrings(Rcpts(all))
                  \o <<", error: ">> \o RcptErrorsError(all))
    ELSE NilErr

AfterSend(rcptErr, err) ==
    IF SendAbort(rcptErr, err)
    THEN /\ ret' = SendWrap(i, err)
         /\ pc' = "returned"
         /\ UNCHANGED <<i, rcptErrs>>
    ELSE /\ rcptErrs' = SendCollect(rcptErrs, rcptErr)
         /\ i' = i + 1
         /\ UNCHANGED <<ret, pc>>

InLoop == pc = "loop" /\ i < Len(msg)

SendGetFromErr ==
    /\ InLoop
    /\ ~getFrom(msg[i + 1]).err.isNil
    /\ AfterSend(<<>>, getFrom(msg[i + 1]).err)
    /\ UNCHANGED <<s, msg, calls, queries, skip, fcalls, direct>>

SendGetRecipientsErrFirst ==
    /\ InLoop
    /\ ~getRecipients(msg[i + 1]).err.isNil
    /\ AfterSend(<<>>, getRecipients(msg[i + 1]).err)
    /\ UNCHANGED <<s, msg, calls, queries, skip, fcalls, direct>>

SendGetRecipientsErr ==
    /\ InLoop
    /\ getFrom(msg[i + 1]).err.isNil
    /\ ~getRecipients(msg[i + 1]).err.isNil
    /\ AfterSend(<<>>, getRecipients(msg[i + 1]).err)
    /\ UNCHANGED <<s, msg, calls, queries, skip, fcalls, direct>>

EnvelopeOk(m) == getFrom(m).err.isNil /\ getRecipients(m).err.isNil

Call(method, from, to, rcptErr, err) ==
    [index |-> i + 1, method |-> method, from |-> from, to |-> to,
     rcptErr |-> rcptErr, err |-> err]

SendViaSend ==
    /\ InLoop
    /\ EnvelopeOk(msg[i + 1])
    /\ \E answer \in SkipErrRcptAnswers(s) :
         /\ sendMethod(answer) = "Send"
         /\ queries' = Append(queries, [index |-> i + 1, answer |-> answer])
         /\ \E err \in SendErrs :
              /\ calls' = Append(calls, Call("Send", getFrom(msg[i + 1]).addr,
                                             getRecipients(msg[i + 1]).list, <<>>, err))
              /\ AfterSend(<<>>, err)
    /\ fcalls' = fcalls \o InvokesOf(s, getFrom(msg[i + 1]).addr,
                                     getRecipients(msg[i + 1]).list, msg[i + 1])
    /\ UNCHANGED <<s, msg, skip, direct>>

SendViaSkippableSend ==
    /\ InLoop
    /\ EnvelopeOk(msg[i + 1])
    /\ \E answer \in SkipErrRcptAnswers(s) :
         /\ sendMethod(answer) = "SkippableSend"
         /\ queries' = Append(queries, [index |-> i + 1, answer |-> answer])
         /\ \E r \in SkippableSendResults(s, getRecipients(msg[i + 1]).list) :
              /\ calls' = Append(calls, Call("SkippableSend", getFrom(msg[i + 1]).addr,
                                             getRecipients(msg[i + 1]).list,
                                             r.rcptErr, r.err))
              /\ AfterSend(r.rcptErr, r.err)
    /\ fcalls' = fcalls \o InvokesOf(s, getFrom(msg[i + 1]).addr,
                                     getRecipients(msg[i + 1]).list, msg[i + 1])
    /\ UNCHANGED <<s, msg, skip, direct>>

SendReturn ==
    /\ pc = "loop"
    /\ i = Len(msg)
    /\ ret' = SendResult(rcptErrs)
    /\ pc' = "returned"
    /\ UNCHANGED <<s, msg, i, rcptErrs, calls, queries, skip, fcalls, direct>>

CallIsSkipRcptErr ==
    /\ pc = "returned"
    /\ skip' = IsSkipRcptErr(ret)
    /\ pc' = "checked"
    /\ UNCHANGED <<s, msg, i, rcptErrs, ret, calls, queries, fcalls, direct>>

(***************************************************************************)
(* A caller's own call of SkippableSend on the SendFunc adapter.           *)
(***************************************************************************)
DirectArgs ==
    { [from |-> "a@x.com", to |-> <<>>, msg |-> [From |-> <<"a@x.com">>]],
      [from |-> "b@x.com", to |-> <<"b@x.com", "a@x.com">>, msg |-> [From |-> <<"a@x.com">>]],
      [from |-> "a@x.com", to |-> <<"b@x.com", "a@x.com">>,
       msg |-> [From |-> <<"b@x.com">>, To |-> <<"a@x.com">>]] }

NoDirect ==
    [done |-> FALSE, from |-> "", to |-> <<>>, msg |-> <<>>, ferr |-> NilErr,
     before |-> 0, result |-> [rcptErr |-> <<>>, err |-> NilErr]]

CallSendFuncSkippableSend ==
    /\ pc = "checked"
    /\ s = "SendFunc"
    /\ \E a \in DirectArgs, ferr \in SendErrs :
         /\ fcalls' = fcalls \o SendFuncInvokes(a.from, a.to, a.msg)
         /\ direct' = [done |-> TRUE, from |-> a.from, to |-> a.to, msg |-> a.msg, ferr |-> ferr,
                       before |-> Len(fcalls), result |-> SendFuncSkippableSend(ferr)]
    /\ pc' = "direct"
    /\ UNCHANGED <<s, msg, i, rcptErrs, ret, calls, queries, skip>>

Next ==
    \/ SendGetFromErr
    \/ SendGetRecipientsErr
    \/ SendViaSend
    \/ SendViaSkippableSend
    \/ SendReturn
    \/ CallIsSkipRcptErr
    \/ CallSendFuncSkippableSend

(***************************************************************************)
(* Inputs.  Spec: batches of up to MaxBatch messages over a small set of   *)
(* headers.  SpecEnvelope: one message, over the headers with up to        *)
(* MaxFromVals sender values or up to MaxRcptVals recipient values.        *)
(***************************************************************************)
BatchFrom ==
    { <<>>, [From |-> <<>>], [From |-> <<"Al <a@x.com>">>], [From |-> <<"Bad <>">>],
      [Sender |-> <<"b@x.com">>, From |-> <<"a@x.com">>] }

BatchTo ==
    { <<>>, [To |-> <<>>], [To |-> <<"b@x.com">>], [To |-> <<"Bad <>">>],
      [To |-> <<"a@x.com", "b@x.com">>] }

Header(from, rcpt) ==
    [f \in DOMAIN from \cup DOMAIN rcpt |-> IF f \in DOMAIN from THEN from[f] ELSE rcpt[f]]

BatchMessages == { Header(f, t) : f \in BatchFrom, t \in BatchTo }

Batches == UNION { [1..n -> BatchMessages] : n \in 0..MaxBatch }

FromPart(vals, a, present) ==
    LET val(f) == IF f = "Sender" THEN SubSeq(vals, 1, a) ELSE SubSeq(vals, a + 1, Len(vals))
    IN  [f \in {g \in {"Sender", "From"} : val(g) # <<>>} \cup present |-> val(f)]

FromParts ==
    { FromPart(t[1], t[2], t[3]) :
        t \in { u \in SeqsUpTo(RawValues, MaxFromVals) \X (0..MaxFromVals)
                        \X (SUBSET {"Sender", "From"}) : u[2] <= Len(u[1]) } }

RcptPart(vals, a, b) ==
    LET val(f) == CASE f = "To"  -> SubSeq(vals, 1, a)
                    [] f = "Cc"  -> SubSeq(vals, a + 1, b)
                    [] f = "Bcc" -> SubSeq(vals, b + 1, Len(vals))
    IN  [f \in {g \in {"To", "Cc", "Bcc"} : val(g) # <<>>} |-> val(f)]

RcptParts ==
    { RcptPart(t[1], t[2], t[3]) :
        t \in { u \in SeqsUpTo(RawValues, MaxRcptVals) \X (0..MaxRcptVals) \X (0..MaxRcptVals) :
                               u[2] <= u[3] /\ u[3] <= Len(u[1]) } }

EnvelopeTo == { <<>>, [To |-> <<"b@x.com">>], [Cc |-> <<"Bad <>">>] }

EnvelopeMessages ==
    { Header(f, t) : f \in FromParts, t \in EnvelopeTo }
    \cup { Header(f, t) : f \in { [From |-> <<"Al <a@x.com>">>] }, t \in RcptParts }

InitWith(batches) ==
    /\ s \in Senders
    /\ msg \in batches
    /\ pc = "loop"
    /\ i = 0
    /\ rcptErrs = <<>>
    /\ ret = NilErr
    /\ calls = <<>>
    /\ queries = <<>>
    /\ skip = "none"
    /\ fcalls = <<>>
    /\ direct = NoDirect

Init == InitWith(Batches)

Spec == Init /\ [][Next]_vars

InitEnvelope == InitWith({ <<m>> : m \in EnvelopeMessages })

SpecEnvelope == InitEnvelope /\ [][Next]_vars

(***************************************************************************)
(* Vocabulary of the properties.                                           *)
(***************************************************************************)
Positions == 1..Len(msg)

Returned == pc \in {"returned", "checked", "direct"}

CallsOf(k) == { c \in 1..Len(calls) : calls[c].index = k }

EnvelopeErr(m) == IF ~getFrom(m).err.isNil THEN getFrom(m).err ELSE getRecipients(m).err

HardCalls(k) == { c \in CallsOf(k) : ~calls[c].err.isNil }

Fails(k) == ~EnvelopeOk(msg[k]) \/ HardCalls(k) # {}

SomeFails == \E k \in Positions : Fails(k)

FirstFail == CHOOSE k \in Positions : Fails(k) /\ \A j \in 1..(k - 1) : ~Fails(j)

Cause(k) ==
    IF ~EnvelopeOk(msg[k]) THEN EnvelopeErr(msg[k])
    ELSE calls[CHOOSE c \in HardCalls(k) : TRUE].err

AnyRcptErr == \E c \in 1..Len(calls) : Len(calls[c].rcptErr) > 0

IsComposite(err) == ~err.isNil /\ HasPrefix(err.text, skipRcptErr)

HardText(k, cause) ==
    <<"gomail: ", "could not send email ", ToString(k), ": ">> \o cause.text

(* C1: once message k fails (its envelope cannot be extracted or its       *)
(* transport call returns a hard error), Send never moves past k and no    *)
(* transport call is ever made for a later message; once the failure has   *)
(* been met, Send has returned.                                            *)
C1_FailFast ==
    \A k \in Positions :
        Fails(k) =>
            /\ i < k
            /\ \A c \in 1..Len(calls) : calls[c].index <= k
            /\ HardCalls(k) # {} => Returned

C1_Witness ==
    /\ Returned
    /\ Len(msg) = 2
    /\ HardCalls(1) # {}
    /\ EnvelopeOk(msg[2])
    /\ CallsOf(2) = {}

(* C2: when Send has returned and some message failed, the result is the   *)
(* position-wrapped error of the first failing message: its 1-based        *)
(* position in decimal and the text of its cause.                          *)
C2_HardErrorPosition ==
    (Returned /\ SomeFails) => ret = NewError(HardText(FirstFail, Cause(FirstFail)))

C2_Witness ==
    /\ Returned
    /\ SomeFails
    /\ FirstFail = 1
    /\ HardCalls(1) # {}
    /\ \E k \in Positions : k > FirstFail /\ ~EnvelopeOk(msg[k])
    /\ ret.text[3] = "1"

(* C3: when Send has returned and no message failed, the result is the     *)
(* composite skip error if some SkippableSend call returned per-recipient  *)
(* errors, and nil if none did.                                            *)
C3_CompositeOrNil ==
    (Returned /\ ~SomeFails) =>
        IF AnyRcptErr THEN IsComposite(ret) ELSE ret.isNil

C3_Witness ==
    /\ Returned
    /\ ~SomeFails
    /\ Len(msg) = 2
    /\ Len(calls[1].rcptErr) > 0
    /\ Len(calls[2].rcptErr) = 0
    /\ IsComposite(ret)

(* C4: IsSkipRcptErr applied to a non-nil result of Send is true exactly   *)
(* when no message failed and some per-recipient error was collected; it   *)
(* is false for every position-wrapped hard error.                         *)
C4_IsSkipRcptErrIff ==
    (pc \in {"checked", "direct"} /\ ~ret.isNil) =>
        /\ skip = "true" <=> (~SomeFails /\ AnyRcptErr)
        /\ skip = "false" <=> SomeFails

C4_Witness ==
    /\ pc = "checked"
    /\ SomeFails
    /\ EnvelopeOk(msg[FirstFail])
    /\ HasPrefix(Cause(FirstFail).text, skipRcptErr)
    /\ AnyRcptErr
    /\ skip = "false"

(* C5: a SkippableSend call that returns per-recipient errors and no hard  *)
(* error does not end Send: the loop moves on, and when Send has returned  *)
(* every later message with a valid envelope that no failure precedes has  *)
(* had its transport call.                                                 *)
C5_RcptErrorContinues ==
    \A c \in 1..Len(calls) :
        (Len(calls[c].rcptErr) > 0 /\ calls[c].err.isNil) =>
            /\ i >= calls[c].index
            /\ Returned =>
                 \A k \in Positions :
                     (k > calls[c].index /\ EnvelopeOk(msg[k])
                        /\ \A j \in 1..(k - 1) : ~Fails(j))
                     => Cardinality(CallsOf(k)) = 1

C5_Witness ==
    /\ Returned
    /\ Len(msg) = 2
    /\ Len(calls) = 2
    /\ Len(calls[1].rcptErr) > 0
    /\ calls[1].err.isNil
    /\ calls[2].index = 2

HasValues(m, field) == field \in DOMAIN m /\ Len(m[field]) > 0

Valid(raw) == MailParseAddress(raw).err.isNil

RcptValues(m) == Lookup(m, "To") \o Lookup(m, "Cc") \o Lookup(m, "Bcc")

AllValid(vals) == \A j \in 1..Len(vals) : Valid(vals[j])

Parsed(vals) == [j \in 1..Len(vals) |-> MailParseAddress(vals[j]).addr]

FirstIndex(seq, x) ==
    CHOOSE j \in 1..Len(seq) : seq[j] = x /\ \A h \in 1..(j - 1) : seq[h] # x

IsFirstOccurrences(list, src) ==
    /\ Range(list) = Range(src)
    /\ \A a, b \in 1..Len(list) :
         a < b => FirstIndex(src, list[a]) < FirstIndex(src, list[b])

Reached(k) == i >= k \/ (Returned /\ i = k - 1)

QueriesOf(k) == { q \in 1..Len(queries) : queries[q].index = k }

InvalidAddressText(raw) ==
    <<"gomail: ", "invalid address ", "\"", raw, "\"", ": ">> \o MailParseAddress(raw).err.text

(* C6: every transport call of a message whose "Sender" has a value gets   *)
(* the parse of the first "Sender" value as envelope-from, whatever "From" *)
(* holds; with "Sender" absent or empty and a value in "From", it gets the *)
(* parse of the first "From" value.  No call is made unless that first     *)
(* value parses.                                                           *)
C6_SenderBeforeFrom ==
    \A c \in 1..Len(calls) :
        LET m == msg[calls[c].index]
        IN  IF HasValues(m, "Sender")
            THEN /\ Valid(m["Sender"][1])
                 /\ calls[c].from = MailParseAddress(m["Sender"][1]).addr
            ELSE /\ HasValues(m, "From")
                 /\ Valid(m["From"][1])
                 /\ calls[c].from = MailParseAddress(m["From"][1]).addr

C6_Witness ==
    /\ Len(calls) = 1
    /\ HasValues(msg[1], "Sender")
    /\ HasValues(msg[1], "From")
    /\ msg[1]["Sender"][1] = "Al <a@x.com>"
    /\ msg[1]["From"][1] = "b@x.com"
    /\ calls[1].from = "a@x.com"

(* C7: a message with no value in "Sender" and none in "From" never gets a *)
(* transport call, Send never moves past it, and when Send returns at it   *)
(* the result is the position-wrapped missing-"From" error.                *)
C7_MissingSender ==
    \A k \in Positions :
        (~HasValues(msg[k], "Sender") /\ ~HasValues(msg[k], "From")) =>
            /\ CallsOf(k) = {}
            /\ i < k
            /\ (Returned /\ i = k - 1) =>
                 ret = NewError(<<"gomail: ", "could not send email ", ToString(k), ": ",
                                  "gomail: ", "invalid message, \"From\" field is absent">>)

C7_Witness ==
    /\ Returned
    /\ Len(msg) = 2
    /\ i = 1
    /\ "From" \in DOMAIN msg[2]
    /\ ~HasValues(msg[2], "From")
    /\ ~HasValues(msg[2], "Sender")
    /\ HasValues(msg[2], "To")
    /\ AllValid(RcptValues(msg[2]))
    /\ Len(calls) = 1

(* C8: the recipient list of every transport call of a message whose To,   *)
(* Cc and Bcc values are all valid holds exactly the addresses parsed from *)
(* To, then Cc, then Bcc, each once, in the order of first occurrence.     *)
C8_RecipientsFirstOccurrences ==
    \A c \in 1..Len(calls) :
        LET vals == RcptValues(msg[calls[c].index])
        IN  AllValid(vals) => IsFirstOccurrences(calls[c].to, Parsed(vals))

C8_Witness ==
    /\ Len(calls) = 1
    /\ LET vals == RcptValues(msg[1])
       IN  /\ Len(vals) = 3
           /\ Len(Lookup(msg[1], "To")) = 1
           /\ Len(Lookup(msg[1], "Bcc")) = 1
           /\ vals = <<"Al <a@x.com>", "b@x.com", "a@x.com">>
    /\ calls[1].to = <<"a@x.com", "b@x.com">>

C10_CapabilityDispatch ==
    \A k \in Positions :
        (Reached(k) /\ EnvelopeOk(msg[k])) =>
            /\ Cardinality(QueriesOf(k)) = 1
            /\ Cardinality(CallsOf(k)) = 1
            /\ LET q == CHOOSE q \in QueriesOf(k) : TRUE
                   c == CHOOSE c \in CallsOf(k) : TRUE
               IN  /\ calls[c].method = IF queries[q].answer THEN "SkippableSend" ELSE "Send"
                   /\ calls[c].from = getFrom(msg[k]).addr
                   /\ calls[c].to = getRecipients(msg[k]).list

C10_Witness ==
    /\ Returned
    /\ Len(calls) = 2
    /\ calls[1].method = "SkippableSend"
    /\ calls[2].method = "Send"
    /\ calls[2].index = 2
    /\ Len(calls[2].to) = 2

(* C11: the SendFunc adapter answers every SkipErrRcpt query with false,   *)
(* and a call of its SkippableSend calls the wrapped function exactly once *)
(* with the same from, recipients and message, and returns no              *)
(* per-recipient errors together with the error the function returned.     *)
C11_SendFuncAdapter ==
    /\ s = "SendFunc" => \A q \in 1..Len(queries) : queries[q].answer = FALSE
    /\ direct.done =>
         /\ Len(fcalls) = direct.before + 1
         /\ fcalls[Len(fcalls)] = [from |-> direct.from, to |-> direct.to, msg |-> direct.msg]
         /\ direct.result.rcptErr = <<>>
         /\ direct.result.err = direct.ferr

C11_Witness ==
    /\ direct.done
    /\ ~direct.ferr.isNil
    /\ direct.to = <<"b@x.com", "a@x.com">>
    /\ direct.before = 2
    /\ Len(queries) = 2

(* C12: IsSkipRcptErr applied to the nil result of a Send in which nothing *)
(* failed and no per-recipient error was collected returns false.          *)
C12_NilIsNotSkip ==
    (pc \in {"checked", "direct"} /\ ret.isNil) => skip = "false"

MethodFor(answer) == IF answer THEN "SkippableSend" ELSE "Send"

(* C13, as claimed: a Send that made transport calls asked the capability  *)
(* exactly once, and every call of the batch used the method chosen from   *)
(* that one answer.                                                        *)
C13_QueriedOncePerSend ==
    (Returned /\ Len(calls) > 0) =>
        /\ Len(queries) = 1
        /\ \A c \in 1..Len(calls) : calls[c].method = MethodFor(queries[1].answer)

(* C13, amended: the capability is asked once for each message whose       *)
(* envelope was extracted and never for another message, so once before    *)
(* each transport call; the method of each call follows the answer given   *)
(* for its own message.                                                    *)
C13_QueriedOncePerMessage ==
    /\ Len(queries) = Len(calls)
    /\ \A c \in 1..Len(calls) :
         /\ queries[c].index = calls[c].index
         /\ calls[c].method = MethodFor(queries[c].answer)
    /\ \A k \in Positions :
         Cardinality(QueriesOf(k)) = IF Reached(k) /\ EnvelopeOk(msg[k]) THEN 1 ELSE 0

C13_Witness ==
    /\ Returned
    /\ Len(queries) = 2
    /\ queries[1].answer = FALSE
    /\ queries[2].answer = TRUE
    /\ calls[1].method = "Send"
    /\ calls[2].method = "SkippableSend"

(* C14: the transport calls of one Send are made for the messages in input *)
(* order, one call per message and none skipped: the c-th call is the call *)
(* of message c, so the called messages are a prefix of the batch.         *)
C14_SerialInOrder ==
    /\ Len(calls) <= Len(msg)
    /\ \A c \in 1..Len(calls) : calls[c].index = c
    /\ pc = "loop" => Len(calls) = i

C14_Witness ==
    /\ Returned
    /\ Len(msg) = 2
    /\ Len(calls) = 2
    /\ calls[1].index = 1
    /\ calls[2].index = 2
    /\ ~calls[2].err.isNil

RECURSIVE CollectedUpTo(_)
CollectedUpTo(c) ==
    IF c = 0 THEN <<>> ELSE CollectedUpTo(c - 1) \o calls[c].rcptErr

(* C15: the per-recipient errors Send holds are those returned by the      *)
(* SkippableSend calls so far, concatenated in call order and each call's  *)
(* in the order returned; the composite error lists their recipients in    *)
(* that order between "[" and "]", repeated addresses included.            *)
C15_RcptsInBatchOrder ==
    /\ pc = "loop" => rcptErrs = CollectedUpTo(Len(calls))
    /\ (Returned /\ ~SomeFails /\ AnyRcptErr) =>
         LET all  == CollectedUpTo(Len(calls))
             list == [k \in 1..Len(all) |-> all[k].rcpt]
         IN  /\ rcptErrs = all
             /\ HasPrefix(ret.text, skipRcptErr \o <<": ", "[">> \o JoinSpace(list) \o <<"]">>)

C15_Witness ==
    /\ Returned
    /\ ~SomeFails
    /\ Len(calls) = 2
    /\ Rcpts(calls[1].rcptErr) = <<"b@x.com", "a@x.com">>
    /\ calls[1].to = <<"a@x.com", "b@x.com">>
    /\ Rcpts(calls[2].rcptErr) = <<"b@x.com">>
    /\ SubSeq(ret.text, 4, 10) = <<"[", "b@x.com", " ", "a@x.com", " ", "b@x.com", "]">>

(* C16: a message with a valid sender and no value in To, Cc and Bcc that  *)
(* Send has handled got exactly one transport call, with the empty         *)
(* recipient list; a hard error of that call is Send's result, wrapped     *)
(* with the message's position, and otherwise Send went on past it.        *)
C16_NoRecipientsStillSent ==
    \A k \in Positions :
        (Reached(k) /\ getFrom(msg[k]).err.isNil /\ RcptValues(msg[k]) = <<>>) =>
            /\ Cardinality(CallsOf(k)) = 1
            /\ LET c == CHOOSE c \in CallsOf(k) : TRUE
               IN  /\ calls[c].to = <<>>
                   /\ IF calls[c].err.isNil
                      THEN i >= k
                      ELSE /\ Returned
                           /\ i = k - 1
                           /\ ret = NewError(HardText(k, calls[c].err))

C16_Witness ==
    /\ Returned
    /\ Len(msg) = 2
    /\ "To" \in DOMAIN msg[1]
    /\ RcptValues(msg[1]) = <<>>
    /\ RcptValues(msg[2]) = <<>>
    /\ "To" \notin DOMAIN msg[2]
    /\ Len(calls) = 2
    /\ calls[1].to = <<>>
    /\ calls[1].err.isNil
    /\ ~calls[2].err.isNil

PositionWrapped(err) ==
    /\ ~err.isNil
    /\ HasPrefix(err.text, <<"gomail: ", "could not send email ">>)

(* C17: when some message failed, the result of Send is the                *)
(* position-wrapped error and nothing else: it does not start with the     *)
(* skip prefix, IsSkipRcptErr is false for it, and its text shows none of  *)
(* the per-recipient errors the SkippableSend calls returned.              *)
C17_HardErrorDiscardsSkipped ==
    (Returned /\ SomeFails) =>
        /\ PositionWrapped(ret)
        /\ ~IsComposite(ret)
        /\ ~Contains(ret.text, <<"550 mailbox unavailable">>)
        /\ Len(ret.text) = 4 + Len(Cause(FirstFail).text)
        /\ pc \in {"checked", "direct"} => skip = "false"

C17_Witness ==
    /\ pc = "checked"
    /\ Len(calls) = 2
    /\ Len(calls[1].rcptErr) > 0
    /\ calls[1].err.isNil
    /\ Len(calls[2].rcptErr) > 0
    /\ ~calls[2].err.isNil
    /\ Len(rcptErrs) > 0
    /\ skip = "false"

(* C18: while every SkipErrRcpt answer of the call has been false, as with *)
(* the SendFunc adapter always, SkippableSend has not been called, no      *)
(* per-recipient error is held, and a returned Send gave nil or a          *)
(* position-wrapped error, never the composite skip error.                 *)
C18_NoSkipWithoutCapability ==
    /\ s = "SendFunc" => \A q \in 1..Len(queries) : ~queries[q].answer
    /\ (\A q \in 1..Len(queries) : ~queries[q].answer) =>
         /\ \A c \in 1..Len(calls) : calls[c].method = "Send"
         /\ rcptErrs = <<>>
         /\ Returned => (ret.isNil \/ PositionWrapped(ret))
         /\ ~IsComposite(ret)

C18_Witness ==
    /\ Returned
    /\ s = "SendFunc"
    /\ Len(calls) = 2
    /\ Len(calls[1].to) = 2
    /\ ret.isNil

(* C19: a message whose envelope cannot be extracted gets no SkipErrRcpt   *)
(* query and no transport call; when its sender cannot be derived, the     *)
(* error Send returns at it is the sender's error (missing "From", or the  *)
(* invalid address of the first value of the winning field), whatever its  *)
(* recipient values are.                                                   *)
C19_SenderBeforeRecipients ==
    \A k \in Positions :
        LET m      == msg[k]
            winner == IF HasValues(m, "Sender") THEN m["Sender"]
                      ELSE IF HasValues(m, "From") THEN m["From"] ELSE <<>>
            cause  == IF winner = <<>>
                      THEN <<"gomail: ", "invalid message, \"From\" field is absent">>
                      ELSE InvalidAddressText(winner[1])
        IN  /\ ~EnvelopeOk(m) => (QueriesOf(k) = {} /\ CallsOf(k) = {})
            /\ (winner = <<>> \/ ~Valid(winner[1])) =>
                 /\ QueriesOf(k) = {}
                 /\ CallsOf(k) = {}
                 /\ (Returned /\ i = k - 1) =>
                      ret.text = <<"gomail: ", "could not send email ", ToString(k), ": ">> \o cause

C19_Witness ==
    /\ Returned
    /\ Len(msg) = 2
    /\ i = 1
    /\ HasValues(msg[2], "From")
    /\ ~Valid(msg[2]["From"][1])
    /\ ~AllValid(RcptValues(msg[2]))
    /\ Len(calls) = 1
    /\ Len(queries) = 1

====
